---- MODULE Spec2Model ----
(***************************************************************************)
(* VeloDetect: the OHLCV bar model, the paginated series assembler         *)
(* (OHLCVFetcher.fetch_ohlcv) and the indicator engine                     *)
(* (TechnicalIndicators).                                                  *)
(***************************************************************************)
EXTENDS Integers, Sequences, FiniteSets, TLC

(***************************************************************************)
(* Bounds of the model.                                                    *)
(***************************************************************************)
\* page size of the exchange client, scaled down from limit=1000
PageLimit == 2
\* timestamps (ms) range over TsBase .. TsBase + TsSpan
TsSpan == 2
\* cap on the number of pages requested in one fetch_ohlcv call
MaxRequests == 2
\* prices of a directly constructed bar range over 1 .. MaxPrice
MaxPrice == 2
\* the engine's input frames have at most MaxLen rows
MaxLen == 3
\* the frames handed to the signal methods have at most SigLen rows
SigLen == 2

\* milliseconds per second: timestamp_ms / 1000
MsPerSec == 1000

TsBase == MsPerSec - 1
Timestamps == TsBase .. (TsBase + TsSpan)
PriceVals == 1 .. MaxPrice
VolumeVals == (0 - 1) .. 1

VARIABLES
    pc,                 \* "idle", "bar", "loop", "done", "raised"
    bar_args,           \* arguments of the last direct OHLCVBar(...) call
    bar_result,         \* the bar it produced, or NoBar when it raised
    bar_error,          \* the error it raised, or "none"
    since_timestamp,    \* fetch_ohlcv: parsed start
    until_timestamp,    \* fetch_ohlcv: parsed end
    current_timestamp,  \* fetch_ohlcv: pagination cursor
    all_bars,           \* fetch_ohlcv: bars collected so far
    nreq,               \* number of exchange.fetch_ohlcv calls made
    req_since,          \* since argument of the latest exchange call
    page_ts,            \* timestamps of the latest page (ohlcv)
    pages_sorted,       \* every page so far was non-decreasing by timestamp
    rejected,           \* candle whose bar construction raised, or <<>>
    client,             \* self.exchange: "any", "stale" or "honest" client
    in_df,              \* the caller's DataFrame handed to TechnicalIndicators
    epc,                \* "new", "ready" (constructed), "failed" (raised)
    df,                 \* self.df of the engine
    call,               \* the latest method call: name, period, column
    result              \* what it returned or raised

fvars == <<pc, bar_args, bar_result, bar_error, since_timestamp,
           until_timestamp, current_timestamp, all_bars, nreq, req_since,
           page_ts, pages_sorted, rejected, client>>

evars == <<in_df, epc, df, call, result>>

vars == <<fvars, evars>>

NoBar == [timestamp |-> <<0, 0>>, open |-> 0, high |-> 0, low |-> 0,
          close |-> 0, volume |-> 0 - 1]

(***************************************************************************)
(* OHLCVBar                                                                *)
(***************************************************************************)
\* datetime.fromtimestamp(timestamp_ms / 1000): seconds and the
\* sub-second part, compared lexicographically
FromTimestamp(ms) == <<ms \div MsPerSec, ms % MsPerSec>>

DtLess(a, b) == a[1] < b[1] \/ (a[1] = b[1] /\ a[2] < b[2])

\* __post_init__ without the volume check
PostInitNoVolume(o, h, l, c, v) ==
    IF h < l THEN "high_lt_low"
    ELSE IF h < o \/ h < c THEN "high_lt_open_close"
    ELSE IF l > o \/ l > c THEN "low_gt_open_close"
    ELSE "ok"

\* __post_init__ : the first failing check decides the error
PostInit(o, h, l, c, v) ==
    IF h < l THEN "high_lt_low"
    ELSE IF h < o \/ h < c THEN "high_lt_open_close"
    ELSE IF l > o \/ l > c THEN "low_gt_open_close"
    ELSE IF v < 0 THEN "negative_volume"
    ELSE "ok"

MkBar(ts, o, h, l, c, v) ==
    [timestamp |-> FromTimestamp(ts), open |-> o, high |-> h, low |-> l,
     close |-> c, volume |-> v]

BarOK(b) ==
    /\ b.high >= b.low
    /\ b.high >= b.open
    /\ b.high >= b.close
    /\ b.low <= b.open
    /\ b.low <= b.close
    /\ b.volume >= 0

(***************************************************************************)
(* OHLCVFetcher.fetch_ohlcv                                                *)
(***************************************************************************)
\* <<open, high, low, close, volume>> of the candle the market produced at
\* timestamp ts: rising on even milliseconds, falling with zero volume on odd
MarketShape(ts) ==
    IF ts % 2 = 0 THEN <<1, 2, 1, 2, 1>> ELSE <<2, 2, 1, 1, 0>>

\* shapes of corrupt candles an exchange client may hand over
CorruptShapes ==
    { <<1, 1, 2, 1, 1>>,        \* high < low
      <<1, 2, 1, 2, 0 - 1>> }   \* negative volume

RECURSIVE SeqsUpTo(_, _)
SeqsUpTo(S, n) ==
    IF n = 0 THEN { <<>> }
    ELSE LET shorter == SeqsUpTo(S, n - 1)
         IN  shorter \cup { Append(q, x) : q \in { r \in shorter : Len(r) = n - 1 }, x \in S }

\* timestamps of the pages the exchange client may return
TsPages == SeqsUpTo(Timestamps, PageLimit)

\* the page with timestamps tss whose candle number bad (0: none) is corrupt
MkPage(tss, bad, shape) ==
    [i \in 1 .. Len(tss) |->
        <<tss[i]>> \o (IF i = bad THEN shape ELSE MarketShape(tss[i]))]

NonDecreasing(ts) == \A i \in 1 .. (Len(ts) - 1) : ts[i] <= ts[i + 1]

\* if timestamp_ms > until_timestamp: break
BeyondUntilStrict(ts, until) == ts > until

\* if timestamp_ms >= until_timestamp: break
BeyondUntil(ts, until) == ts >= until

\* the for loop over the candles of one page, from candle i on:
\* stops at the first candle at or beyond until, raises on an invalid bar
RECURSIVE ProcessCandles(_, _, _, _)
ProcessCandles(ohlcv, i, bars, until) ==
    IF i > Len(ohlcv) THEN [bars |-> bars, raised |-> <<>>]
    ELSE LET cd == ohlcv[i]
         IN  IF BeyondUntil(cd[1], until) THEN [bars |-> bars, raised |-> <<>>]
             ELSE IF PostInit(cd[2], cd[3], cd[4], cd[5], cd[6]) # "ok"
                  THEN [bars |-> bars, raised |-> cd]
                  ELSE ProcessCandles(ohlcv, i + 1,
                           Append(bars, MkBar(cd[1], cd[2], cd[3], cd[4], cd[5], cd[6])),
                           until)

\* current_timestamp = ohlcv[0][0] + 1
NextCursorFromFirst(ohlcv) == ohlcv[1][1] + 1

\* current_timestamp = ohlcv[-1][0]
NextCursorNoStep(ohlcv) == ohlcv[Len(ohlcv)][1]

\* current_timestamp = ohlcv[-1][0] + 1
NextCursor(ohlcv) == ohlcv[Len(ohlcv)][1] + 1

\* the pages self.exchange may answer a request from since with: an "honest"
\* client ends every non-empty page at or after since, a "stale" client may
\* end it anywhere (both hand over sound candles only), "any" client may also
\* hand over a corrupt candle
ClientMay(kind, tss, bad, since) ==
    CASE kind = "honest" -> bad = 0 /\ (tss # <<>> => tss[Len(tss)] >= since)
      [] kind = "stale" -> bad = 0
      [] OTHER -> TRUE

\* if len(ohlcv) < 1000: break
ShortPage(ohlcv) == Len(ohlcv) < PageLimit

\* OHLCVBar(...) called directly
ConstructBar ==
    /\ pc = "idle"
    /\ \E o \in PriceVals, h \in PriceVals, l \in PriceVals, c \in PriceVals,
          v \in VolumeVals, ts \in Timestamps :
          LET err == PostInit(o, h, l, c, v)
          IN  /\ bar_args' = <<ts, o, h, l, c, v>>
              /\ bar_error' = err
              /\ bar_result' = IF err = "ok" THEN MkBar(ts, o, h, l, c, v) ELSE NoBar
    /\ pc' = "bar"
    /\ UNCHANGED <<since_timestamp, until_timestamp, current_timestamp,
                   all_bars, nreq, req_since, page_ts, pages_sorted, rejected,
                   client>>
    /\ UNCHANGED evars

\* fetch_ohlcv up to the while loop
StartFetch ==
    /\ pc = "idle"
    /\ \E s \in Timestamps, u \in Timestamps :
          /\ since_timestamp' = s
          /\ until_timestamp' = u
          /\ current_timestamp' = s
    /\ all_bars' = <<>>
    /\ pc' = "loop"
    /\ UNCHANGED <<bar_args, bar_result, bar_error, nreq, req_since, page_ts,
                   pages_sorted, rejected, client>>
    /\ UNCHANGED evars

\* one iteration of the while loop: request a page and process it
FetchPage ==
    /\ pc = "loop"
    /\ current_timestamp < until_timestamp
    /\ client = "honest" \/ nreq < MaxRequests
    /\ \E tss \in TsPages, bad \in 0 .. PageLimit, shape \in CorruptShapes :
          LET ohlcv == MkPage(tss, bad, shape)
              r == ProcessCandles(ohlcv, 1, all_bars, until_timestamp)
          IN  /\ ClientMay(client, tss, bad, current_timestamp)
              /\ bad <= Len(tss)
              /\ bad = 0 => shape = <<1, 1, 2, 1, 1>>
              /\ nreq' = nreq + 1
              /\ req_since' = current_timestamp
              /\ page_ts' = tss
              /\ pages_sorted' = (pages_sorted /\ NonDecreasing(tss))
              /\ IF ohlcv = <<>>
                 THEN /\ pc' = "done"
                      /\ UNCHANGED <<all_bars, current_timestamp, rejected>>
                 ELSE IF r.raised # <<>>
                 THEN /\ pc' = "raised"
                      /\ all_bars' = r.bars
                      /\ rejected' = r.raised
                      /\ UNCHANGED current_timestamp
                 ELSE /\ all_bars' = r.bars
                      /\ current_timestamp' = NextCursor(ohlcv)
                      /\ pc' = IF ShortPage(ohlcv) THEN "done" ELSE "loop"
                      /\ UNCHANGED rejected
    /\ UNCHANGED <<bar_args, bar_result, bar_error, since_timestamp,
                   until_timestamp, client>>
    /\ UNCHANGED evars

\* exchange.fetch_ohlcv raises: printed and re-raised
ExchangeRaises ==
    /\ pc = "loop"
    /\ current_timestamp < until_timestamp
    /\ nreq < MaxRequests
    /\ nreq' = nreq + 1
    /\ req_since' = current_timestamp
    /\ pc' = "raised"
    /\ UNCHANGED <<bar_args, bar_result, bar_error, since_timestamp,
                   until_timestamp, current_timestamp, all_bars, page_ts,
                   pages_sorted, rejected, client>>
    /\ UNCHANGED evars

\* the while condition fails: return OHLCVData(bars=all_bars)
ReturnData ==
    /\ pc = "loop"
    /\ ~(current_timestamp < until_timestamp)
    /\ pc' = "done"
    /\ UNCHANGED <<bar_args, bar_result, bar_error, since_timestamp,
                   until_timestamp, current_timestamp, all_bars, nreq,
                   req_since, page_ts, pages_sorted, rejected, client>>
    /\ UNCHANGED evars

(***************************************************************************)
(* Floating-point values of the DataFrame columns: <<n, d>> is the         *)
(* rational n/d in lowest terms (d > 0); <<0, 0>> is NaN, <<1, 0>> is +inf *)
(* and <<-1, 0>> is -inf.  Arithmetic is exact; rounding is not modelled.  *)
(***************************************************************************)
NaN == <<0, 0>>
PosInf == <<1, 0>>
NegInf == <<0 - 1, 0>>
R(n) == <<n, 1>>

Abs(n) == IF n < 0 THEN 0 - n ELSE n
Sign(n) == IF n < 0 THEN 0 - 1 ELSE IF n > 0 THEN 1 ELSE 0

RECURSIVE GCD(_, _)
GCD(a, b) == IF b = 0 THEN a ELSE GCD(b, a % b)

Norm(n, d) == LET g == GCD(Abs(n), d) IN <<n \div g, d \div g>>

IsNaN(x) == x[1] = 0 /\ x[2] = 0
IsInf(x) == x[1] # 0 /\ x[2] = 0
IsFinite(x) == x[2] > 0

FNeg(x) == <<0 - x[1], x[2]>>

FAdd(x, y) ==
    IF IsNaN(x) \/ IsNaN(y) THEN NaN
    ELSE IF IsInf(x) THEN (IF IsInf(y) /\ y[1] # x[1] THEN NaN ELSE x)
    ELSE IF IsInf(y) THEN y
    ELSE LET g == GCD(x[2], y[2])
             l == (x[2] \div g) * y[2]
         IN  Norm(x[1] * (l \div x[2]) + y[1] * (l \div y[2]), l)

FSub(x, y) == FAdd(x, FNeg(y))

FMul(x, y) ==
    IF IsNaN(x) \/ IsNaN(y) THEN NaN
    ELSE IF IsInf(x) \/ IsInf(y)
         THEN (IF x[1] = 0 \/ y[1] = 0 THEN NaN ELSE <<Sign(x[1]) * Sign(y[1]), 0>>)
    ELSE Norm(x[1] * y[1], x[2] * y[2])

\* x / y as numpy divides floats: x/0 is +-inf, 0/0 is NaN, nothing raises
FDiv(x, y) ==
    IF IsNaN(x) \/ IsNaN(y) THEN NaN
    ELSE IF IsInf(x)
         THEN (IF IsInf(y) THEN NaN
               ELSE <<x[1] * (IF y[1] < 0 THEN 0 - 1 ELSE 1), 0>>)
    ELSE IF IsInf(y) THEN R(0)
    ELSE IF y[1] = 0 THEN (IF x[1] = 0 THEN NaN ELSE <<Sign(x[1]), 0>>)
    ELSE Norm(Sign(y[1]) * x[1] * y[2], x[2] * Abs(y[1]))

\* comparisons with NaN are False
FLt(x, y) ==
    /\ ~IsNaN(x)
    /\ ~IsNaN(y)
    /\ IF IsInf(x) \/ IsInf(y)
       THEN (x = NegInf /\ y # NegInf) \/ (y = PosInf /\ x # PosInf)
       ELSE FSub(x, y)[1] < 0

FGt(x, y) == FLt(y, x)

(***************************************************************************)
(* pandas Series operations (positions 1 .. n)                             *)
(***************************************************************************)
RECURSIVE SumRange(_, _, _)
SumRange(x, lo, hi) ==
    IF lo > hi THEN R(0) ELSE FAdd(SumRange(x, lo, hi - 1), x[hi])

\* x.rolling(window=p).mean(), p >= 0: min_periods = p, so a window that is
\* incomplete or holds a NaN yields NaN; a window of 0 observations yields NaN
RollingMean(x, p) ==
    [t \in 1 .. Len(x) |->
        IF p = 0 \/ t < p \/ (\E i \in (t - p + 1) .. t : IsNaN(x[i]))
        THEN NaN
        ELSE FDiv(SumRange(x, t - p + 1, t), R(p))]

\* x.shift(p - 1)
ShiftOneLess(x, p) ==
    [t \in 1 .. Len(x) |->
        IF t - p + 1 >= 1 /\ t - p + 1 <= Len(x) THEN x[t - p + 1] ELSE NaN]

\* x.shift(p): p > 0 looks back, p < 0 looks ahead, vacated positions NaN
Shift(x, p) ==
    [t \in 1 .. Len(x) |->
        IF t - p >= 1 /\ t - p <= Len(x) THEN x[t - p] ELSE NaN]

\* x.diff()
Diff(x) == [t \in 1 .. Len(x) |-> FSub(x[t], Shift(x, 1)[t])]

\* np.abs(x)
FAbs(x) == IF x[1] < 0 THEN FNeg(x) ELSE x

\* the values of the window of p observations that ends at t
Window(x, p, t) == { x[i] : i \in (t - p + 1) .. t }

\* x.rolling(window=p).max(), p >= 1: NaN while the window is incomplete or
\* holds a NaN
RollingMax(x, p) ==
    [t \in 1 .. Len(x) |->
        IF t < p \/ NaN \in Window(x, p, t) THEN NaN
        ELSE CHOOSE v \in Window(x, p, t) :
                 \A w \in Window(x, p, t) : ~FLt(v, w)]

\* x.rolling(window=p).min(), p >= 1
RollingMin(x, p) ==
    [t \in 1 .. Len(x) |->
        IF t < p \/ NaN \in Window(x, p, t) THEN NaN
        ELSE CHOOSE v \in Window(x, p, t) :
                 \A w \in Window(x, p, t) : ~FGt(v, w)]

\* max(axis=1) of a row: NaN entries are skipped, a row of NaN yields NaN
RowMax(vals) ==
    LET known == { v \in vals : ~IsNaN(v) }
    IN  IF known = {} THEN NaN
        ELSE CHOOSE v \in known : \A w \in known : ~FLt(v, w)

\* x.ewm(span=p, adjust=False).mean(), p >= 1: alpha = 2 / (p + 1); a NaN
\* observation repeats the previous mean, the first valid one seeds it
RECURSIVE EwmAt(_, _, _)
EwmAt(x, p, t) ==
    IF t = 1 THEN x[1]
    ELSE LET prev == EwmAt(x, p, t - 1)
             alpha == Norm(2, p + 1)
         IN  IF IsNaN(x[t]) THEN prev
             ELSE IF IsNaN(prev) THEN x[t]
             ELSE FAdd(FMul(alpha, x[t]), FMul(FSub(R(1), alpha), prev))

Ewm(x, p) == [t \in 1 .. Len(x) |-> EwmAt(x, p, t)]

\* a fill that looks one position back only (ffill(limit=1))
FFillAtOneBack(x, t) ==
    IF ~IsNaN(x[t]) THEN x[t]
    ELSE IF t = 1 THEN NaN
    ELSE x[t - 1]

\* x.ffill()
RECURSIVE FFillAt(_, _)
FFillAt(x, t) ==
    IF ~IsNaN(x[t]) THEN x[t]
    ELSE IF t = 1 THEN NaN
    ELSE FFillAt(x, t - 1)

FFill(x) == [t \in 1 .. Len(x) |-> FFillAt(x, t)]

(***************************************************************************)
(* TechnicalIndicators                                                     *)
(***************************************************************************)
RequiredCols == {"open", "high", "low", "close", "volume"}

NoFrame == [open |-> <<>>, high |-> <<>>, low |-> <<>>, close |-> <<>>,
            volume |-> <<>>]
NoCall == [name |-> "none", period |-> 0, column |-> "none"]
NoResult == [status |-> "none", out |-> <<>>]

Ok(series) == [status |-> "ok", out |-> series]
Raise(err) == [status |-> err, out |-> <<>>]

\* number of rows of a DataFrame
NRows(d) == Len(d.close)

\* self.df.isnull().any().any()
HasNaN(d) == \E c \in DOMAIN d : \E t \in 1 .. Len(d[c]) : IsNaN(d[c][t])

\* _validate_data without the emptiness test
ValidateDataNoEmpty(d) ==
    IF HasNaN(d)
    THEN [status |-> "ok", df |-> [c \in DOMAIN d |-> FFill(d[c])]]
    ELSE [status |-> "ok", df |-> d]

\* _validate_data: raise on an empty frame, forward-fill when any NaN
ValidateData(d) ==
    IF NRows(d) = 0 THEN [status |-> "ValueError", df |-> d]
    ELSE IF HasNaN(d)
    THEN [status |-> "ok", df |-> [c \in DOMAIN d |-> FFill(d[c])]]
    ELSE [status |-> "ok", df |-> d]

\* sma(period, column)
SmaOf(d, period, column) ==
    IF column \notin DOMAIN d THEN Raise("ValueError")
    ELSE IF period < 0 THEN Raise("ValueError")
    ELSE Ok(<<RollingMean(d[column], period)>>)

\* ema(period, column): ewm rejects a span below 1
EmaOf(d, period, column) ==
    IF column \notin DOMAIN d THEN Raise("ValueError")
    ELSE IF period < 1 THEN Raise("ValueError")
    ELSE Ok(<<Ewm(d[column], period)>>)

\* roc(period, column)
RocOf(d, period, column) ==
    IF column \notin DOMAIN d THEN Raise("ValueError")
    ELSE LET x == d[column]
             s == Shift(x, period)
         IN  Ok(<<[t \in 1 .. Len(x) |->
                     FMul(FDiv(FSub(x[t], s[t]), s[t]), R(100))]>>)

\* momentum(period, column)
MomentumOf(d, period, column) ==
    IF column \notin DOMAIN d THEN Raise("ValueError")
    ELSE LET x == d[column]
             s == Shift(x, period)
         IN  Ok(<<[t \in 1 .. Len(x) |-> FSub(x[t], s[t])]>>)

\* delta.where(delta > 0, 0)
Gains(delta) ==
    [t \in 1 .. Len(delta) |-> IF FGt(delta[t], R(0)) THEN delta[t] ELSE R(0)]

\* -delta.where(delta < 0, 0)
Losses(delta) ==
    [t \in 1 .. Len(delta) |->
        IF FLt(delta[t], R(0)) THEN FNeg(delta[t]) ELSE R(0)]

\* rsi(period)
RsiOf(d, period) ==
    IF period < 0 THEN Raise("ValueError")
    ELSE LET delta == Diff(d.close)
             gain == RollingMean(Gains(delta), period)
             loss == RollingMean(Losses(delta), period)
         IN  Ok(<<[t \in 1 .. Len(delta) |->
                     FSub(R(100), FDiv(R(100),
                          FAdd(R(1), FDiv(gain[t], loss[t]))))]>>)

\* williams_r(period), period # 0: rolling rejects a negative window
WilliamsROf(d, period) ==
    IF period < 0 THEN Raise("ValueError")
    ELSE LET highest_high == RollingMax(d.high, period)
             lowest_low == RollingMin(d.low, period)
         IN  Ok(<<[t \in 1 .. NRows(d) |->
                     FMul(FDiv(FSub(highest_high[t], d.close[t]),
                               FSub(highest_high[t], lowest_low[t])),
                          R(0 - 100))]>>)

\* stochastic_oscillator(k_period, d_period), k_period # 0: <<%K, %D>>
StochasticOf(d, k_period, d_period) ==
    IF k_period < 0 \/ d_period < 0 THEN Raise("ValueError")
    ELSE LET lowest_low == RollingMin(d.low, k_period)
             highest_high == RollingMax(d.high, k_period)
             k_percent == [t \in 1 .. NRows(d) |->
                              FMul(FDiv(FSub(d.close[t], lowest_low[t]),
                                        FSub(highest_high[t], lowest_low[t])),
                                   R(100))]
         IN  Ok(<<k_percent, RollingMean(k_percent, d_period)>>)

\* atr(period): rolling mean of the true range
AtrOf(d, period) ==
    LET prev == Shift(d.close, 1)
        true_range == [t \in 1 .. NRows(d) |->
                          RowMax({ FSub(d.high[t], d.low[t]),
                                   FAbs(FSub(d.high[t], prev[t])),
                                   FAbs(FSub(d.low[t], prev[t])) })]
    IN  IF period < 0 THEN Raise("ValueError")
        ELSE Ok(<<RollingMean(true_range, period)>>)

\* price_velocity(period): close.pct_change(periods=period) of the filled
\* closes
PriceVelocityOf(d, period) ==
    LET s == Shift(d.close, period)
    IN  Ok(<<[t \in 1 .. NRows(d) |-> FSub(FDiv(d.close[t], s[t]), R(1))]>>)

\* the loop of obv with the accumulator seeded with 0
RECURSIVE ObvAtZeroSeed(_, _)
ObvAtZeroSeed(d, t) ==
    IF t = 1 THEN R(0)
    ELSE LET prev == ObvAtZeroSeed(d, t - 1)
         IN  IF FGt(d.close[t], d.close[t - 1]) THEN FAdd(prev, d.volume[t])
             ELSE IF FLt(d.close[t], d.close[t - 1]) THEN FSub(prev, d.volume[t])
             ELSE prev

\* the loop of obv with the volume subtracted on a rising close
RECURSIVE ObvAtRisingSubtracts(_, _)
ObvAtRisingSubtracts(d, t) ==
    IF t = 1 THEN d.volume[1]
    ELSE LET prev == ObvAtRisingSubtracts(d, t - 1)
         IN  IF FGt(d.close[t], d.close[t - 1]) THEN FSub(prev, d.volume[t])
             ELSE IF FLt(d.close[t], d.close[t - 1]) THEN FSub(prev, d.volume[t])
             ELSE prev

\* the loop of obv: obv[0] = volume[0], then one running accumulator
RECURSIVE ObvAt(_, _)
ObvAt(d, t) ==
    IF t = 1 THEN d.volume[1]
    ELSE LET prev == ObvAt(d, t - 1)
         IN  IF FGt(d.close[t], d.close[t - 1]) THEN FAdd(prev, d.volume[t])
             ELSE IF FLt(d.close[t], d.close[t - 1]) THEN FSub(prev, d.volume[t])
             ELSE prev

\* obv(): iloc[0] of an empty frame raises IndexError
ObvOf(d) ==
    IF NRows(d) = 0 THEN Raise("IndexError")
    ELSE Ok(<<[t \in 1 .. NRows(d) |-> ObvAt(d, t)]>>)

\* x.rolling(window=p).var(): sample variance (ddof = 1) of a complete window
\* without NaN; fewer than two observations leave it undefined
RollingVar(x, p) ==
    [t \in 1 .. Len(x) |->
        IF p < 2 \/ t < p \/ (\E i \in (t - p + 1) .. t : IsNaN(x[i]))
        THEN NaN
        ELSE LET m == FDiv(SumRange(x, t - p + 1, t), R(p))
                 sq == [i \in 1 .. Len(x) |-> FMul(FSub(x[i], m), FSub(x[i], m))]
             IN  FDiv(SumRange(sq, t - p + 1, t), R(p - 1))]

\* volume_sma(period)
VolumeSmaOf(d, period) == SmaOf(d, period, "volume")

\* volume_velocity(period)
VolumeVelocityOf(d, period) ==
    LET ma == VolumeSmaOf(d, period)
    IN  IF ma.status # "ok" THEN ma
        ELSE Ok(<<[t \in 1 .. NRows(d) |-> FDiv(d.volume[t], ma.out[1][t])]>>)

\* macd(fast_period, slow_period, signal_period)
MacdOf(d, fast, slow, sig) ==
    LET fast_ema == EmaOf(d, fast, "close")
        slow_ema == EmaOf(d, slow, "close")
    IN  IF fast_ema.status # "ok" THEN fast_ema
        ELSE IF slow_ema.status # "ok" THEN slow_ema
        ELSE IF sig < 1 THEN Raise("ValueError")
        ELSE LET macd_line == [t \in 1 .. NRows(d) |->
                                  FSub(fast_ema.out[1][t], slow_ema.out[1][t])]
                 signal_line == Ewm(macd_line, sig)
             IN  Ok(<<macd_line, signal_line,
                      [t \in 1 .. NRows(d) |-> FSub(macd_line[t], signal_line[t])]>>)

\* bollinger_bands(period, std_dev): the bands are middle +- std_dev * std;
\* the result holds the middle band and the squared half-width
\* std_dev^2 * var, from which both bands follow
BollingerOf(d, period, std_dev) ==
    LET middle == SmaOf(d, period, "close")
    IN  IF middle.status # "ok" THEN middle
        ELSE LET var == RollingVar(d.close, period)
             IN  Ok(<<middle.out[1],
                      [t \in 1 .. NRows(d) |-> FMul(FMul(std_dev, std_dev), var[t])]>>)

\* series > threshold with a NaN counted as above
GtFlagNaNTrue(x, y) == [t \in 1 .. Len(x) |-> IsNaN(x[t]) \/ FGt(x[t], y[t])]

\* series > other, elementwise: a comparison with NaN is False
GtFlag(x, y) == [t \in 1 .. Len(x) |-> FGt(x[t], y[t])]

\* series < other, elementwise
LtFlag(x, y) == [t \in 1 .. Len(x) |-> FLt(x[t], y[t])]

Const(d, v) == [t \in 1 .. NRows(d) |-> v]

\* close > middle + sqrt(w2), decided on the squares
AboveBand(close, middle, w2) ==
    [t \in 1 .. Len(close) |->
        LET dev == FSub(close[t], middle[t])
        IN  /\ ~IsNaN(close[t]) /\ ~IsNaN(middle[t]) /\ ~IsNaN(w2[t])
            /\ FGt(dev, R(0))
            /\ FGt(FMul(dev, dev), w2[t])]

\* close < middle - sqrt(w2), decided on the squares
BelowBand(close, middle, w2) ==
    [t \in 1 .. Len(close) |->
        LET dev == FSub(middle[t], close[t])
        IN  /\ ~IsNaN(close[t]) /\ ~IsNaN(middle[t]) /\ ~IsNaN(w2[t])
            /\ FGt(dev, R(0))
            /\ FGt(FMul(dev, dev), w2[t])]

\* default arguments of the indicators detect_velocity_signals combines
RocPeriod == 14
RsiPeriod == 14
VolumePeriod == 20
MacdFast == 12
MacdSlow == 26
MacdSignal == 9
BollingerPeriod == 20
BollingerStdDev == 2
RocThreshold == 2
Overbought == 70
Oversold == 30
\* volume_multiplier = 1.5
VolumeMultiplier == Norm(3, 2)

\* detect_velocity_signals(roc_threshold, volume_multiplier): the nine flag
\* columns in the order the code adds them
DetectOf(d, roc_threshold, volume_multiplier) ==
    LET roc_14 == RocOf(d, RocPeriod, "close").out[1]
        rsi == RsiOf(d, RsiPeriod).out[1]
        vv == VolumeVelocityOf(d, VolumePeriod).out[1]
        macd == MacdOf(d, MacdFast, MacdSlow, MacdSignal).out
        bb == BollingerOf(d, BollingerPeriod, R(BollingerStdDev)).out
        mb == GtFlag(macd[1], macd[2])
        hp == GtFlag(macd[3], Const(d, R(0)))
        ml == LtFlag(macd[1], macd[2])
        hn == LtFlag(macd[3], Const(d, R(0)))
    IN  Ok(<< GtFlag(roc_14, Const(d, roc_threshold)),
              LtFlag(roc_14, Const(d, FNeg(roc_threshold))),
              GtFlag(rsi, Const(d, R(Overbought))),
              LtFlag(rsi, Const(d, R(Oversold))),
              GtFlag(vv, Const(d, volume_multiplier)),
              [t \in 1 .. NRows(d) |-> mb[t] /\ hp[t]],
              [t \in 1 .. NRows(d) |-> ml[t] /\ hn[t]],
              AboveBand(d.close, bb[1], bb[2]),
              BelowBand(d.close, bb[1], bb[2]) >>)

\* inputs of the engine: frames of up to MaxLen rows, and one frame that
\* lacks the volume column
\* <<close, volume>> of the rows: closes 1, 2 or missing, volumes 0, 1 or
\* missing
RowVals ==
    { <<R(1), R(1)>>, <<R(2), R(1)>>, <<R(2), R(0)>>, <<NaN, R(1)>>,
      <<R(1), NaN>> }
Rows == { [open |-> cv[1], high |-> FAdd(cv[1], R(1)), low |-> cv[1],
           close |-> cv[1], volume |-> cv[2]] : cv \in RowVals }

FrameOf(rows) ==
    [c \in RequiredCols |-> [t \in 1 .. Len(rows) |-> rows[t][c]]]

NoVolumeFrame ==
    [open |-> <<R(1)>>, high |-> <<R(2)>>, low |-> <<R(1)>>, close |-> <<R(1)>>]

Inputs == { FrameOf(r) : r \in SeqsUpTo(Rows, MaxLen) } \cup { NoVolumeFrame }

\* inputs of obv taken from valid bars: closes 1 .. MaxLen, so that a rising
\* series of every length exists, and volumes 0 or 1 (OHLCVBar accepts 0)
ObvRows == { [open |-> R(c), high |-> R(c + 1), low |-> R(c), close |-> R(c),
              volume |-> R(v)] : c \in 1 .. MaxLen, v \in 0 .. 1 }

ObvInputs == { FrameOf(r) : r \in SeqsUpTo(ObvRows, MaxLen) }

\* periods from -1 up to the longest frame; an unknown column is tried with
\* period 1 only
PeriodVals == (0 - 1) .. MaxLen
ColumnArgs == {"close", "volume", "bogus"}

\* a constructor that fills the caller's frame in place instead of a copy
ConstructFramesInPlace(d) ==
    LET v == ValidateData(d)
    IN  [status |-> v.status, caller |-> v.df, stored |-> v.df]

\* the two frames after self.df = ohlcv_df.copy(); self._validate_data():
\* the caller's object is left as it was, self.df is bound to the checked
\* copy (ffill returns a new frame)
ConstructFrames(d) ==
    LET v == ValidateData(d)
    IN  [status |-> v.status, caller |-> d, stored |-> v.df]

\* TechnicalIndicators(ohlcv_df)
Construct ==
    /\ epc = "new"
    /\ IF ~(RequiredCols \subseteq DOMAIN in_df)
       THEN /\ epc' = "failed"
            /\ df' = df
            /\ in_df' = in_df
       ELSE LET f == ConstructFrames(in_df)
            IN  /\ epc' = IF f.status = "ok" THEN "ready" ELSE "failed"
                /\ df' = f.stored
                /\ in_df' = f.caller
    /\ UNCHANGED <<call, result>>
    /\ UNCHANGED fvars

Sma ==
    /\ epc = "ready"
    /\ \E p \in PeriodVals, c \in ColumnArgs :
          /\ c = "bogus" => p = 1
          /\ call' = [name |-> "sma", period |-> p, column |-> c]
          /\ result' = SmaOf(df, p, c)
    /\ UNCHANGED <<in_df, epc, df>>
    /\ UNCHANGED fvars

Ema ==
    /\ epc = "ready"
    /\ \E p \in PeriodVals, c \in ColumnArgs :
          /\ c = "bogus" => p = 1
          /\ call' = [name |-> "ema", period |-> p, column |-> c]
          /\ result' = EmaOf(df, p, c)
    /\ UNCHANGED <<in_df, epc, df>>
    /\ UNCHANGED fvars

Roc ==
    /\ epc = "ready"
    /\ \E p \in PeriodVals, c \in ColumnArgs :
          /\ c = "bogus" => p = 1
          /\ call' = [name |-> "roc", period |-> p, column |-> c]
          /\ result' = RocOf(df, p, c)
    /\ UNCHANGED <<in_df, epc, df>>
    /\ UNCHANGED fvars

Momentum ==
    /\ epc = "ready"
    /\ \E p \in PeriodVals, c \in ColumnArgs :
          /\ c = "bogus" => p = 1
          /\ call' = [name |-> "momentum", period |-> p, column |-> c]
          /\ result' = MomentumOf(df, p, c)
    /\ UNCHANGED <<in_df, epc, df>>
    /\ UNCHANGED fvars

Rsi ==
    /\ epc = "ready"
    /\ \E p \in PeriodVals :
          /\ call' = [name |-> "rsi", period |-> p, column |-> "close"]
          /\ result' = RsiOf(df, p)
    /\ UNCHANGED <<in_df, epc, df>>
    /\ UNCHANGED fvars

Obv ==
    /\ epc = "ready"
    /\ call' = [name |-> "obv", period |-> 0, column |-> "volume"]
    /\ result' = ObvOf(df)
    /\ UNCHANGED <<in_df, epc, df>>
    /\ UNCHANGED fvars

\* inputs of the signal methods: frames of up to SigLen rows
SigInputs == { FrameOf(r) : r \in SeqsUpTo(Rows, SigLen) }

VolumeSma ==
    /\ epc = "ready"
    /\ \E p \in (0 - 1) .. SigLen :
          /\ call' = [name |-> "volume_sma", period |-> p, column |-> "volume"]
          /\ result' = VolumeSmaOf(df, p)
    /\ UNCHANGED <<in_df, epc, df>>
    /\ UNCHANGED fvars

VolumeVelocity ==
    /\ epc = "ready"
    /\ \E p \in (0 - 1) .. SigLen :
          /\ call' = [name |-> "volume_velocity", period |-> p, column |-> "volume"]
          /\ result' = VolumeVelocityOf(df, p)
    /\ UNCHANGED <<in_df, epc, df>>
    /\ UNCHANGED fvars

Macd ==
    /\ epc = "ready"
    /\ call' = [name |-> "macd", period |-> MacdFast, column |-> "close"]
    /\ result' = MacdOf(df, MacdFast, MacdSlow, MacdSignal)
    /\ UNCHANGED <<in_df, epc, df>>
    /\ UNCHANGED fvars

Bollinger ==
    /\ epc = "ready"
    /\ \E p \in (0 - 1) .. SigLen :
          /\ call' = [name |-> "bollinger_bands", period |-> p, column |-> "close"]
          /\ result' = BollingerOf(df, p, R(BollingerStdDev))
    /\ UNCHANGED <<in_df, epc, df>>
    /\ UNCHANGED fvars

Detect ==
    /\ epc = "ready"
    /\ call' = [name |-> "detect_velocity_signals", period |-> 0, column |-> "close"]
    /\ result' = DetectOf(df, R(RocThreshold), VolumeMultiplier)
    /\ UNCHANGED <<in_df, epc, df>>
    /\ UNCHANGED fvars

\* periods of the window extrema: -1 and 1 .. SigLen
WindowArgs == ((0 - 1) .. SigLen) \ {0}

WilliamsR ==
    /\ epc = "ready"
    /\ \E p \in WindowArgs :
          /\ call' = [name |-> "williams_r", period |-> p, column |-> "close"]
          /\ result' = WilliamsROf(df, p)
    /\ UNCHANGED <<in_df, epc, df>>
    /\ UNCHANGED fvars

StochasticOscillator ==
    /\ epc = "ready"
    /\ \E k \in WindowArgs, dp \in (0 - 1) .. SigLen :
          /\ call' = [name |-> "stochastic_oscillator", period |-> k,
                      column |-> "close", d_period |-> dp]
          /\ result' = StochasticOf(df, k, dp)
    /\ UNCHANGED <<in_df, epc, df>>
    /\ UNCHANGED fvars

Atr ==
    /\ epc = "ready"
    /\ \E p \in (0 - 1) .. SigLen :
          /\ call' = [name |-> "atr", period |-> p, column |-> "close"]
          /\ result' = AtrOf(df, p)
    /\ UNCHANGED <<in_df, epc, df>>
    /\ UNCHANGED fvars

PriceVelocity ==
    /\ epc = "ready"
    /\ \E p \in (0 - 1) .. SigLen :
          /\ call' = [name |-> "price_velocity", period |-> p, column |-> "close"]
          /\ result' = PriceVelocityOf(df, p)
    /\ UNCHANGED <<in_df, epc, df>>
    /\ UNCHANGED fvars

(***************************************************************************)
(* Specifications                                                          *)
(***************************************************************************)
FetchIdle ==
    /\ pc = "idle"
    /\ bar_args = <<>>
    /\ bar_result = NoBar
    /\ bar_error = "none"
    /\ since_timestamp = TsBase
    /\ until_timestamp = TsBase
    /\ current_timestamp = TsBase
    /\ all_bars = <<>>
    /\ nreq = 0
    /\ req_since = TsBase
    /\ page_ts = <<>>
    /\ pages_sorted = TRUE
    /\ rejected = <<>>
    /\ client = "any"

EngineIdle ==
    /\ in_df = NoFrame
    /\ epc = "new"
    /\ df = NoFrame
    /\ call = NoCall
    /\ result = NoResult

InitFetch == FetchIdle /\ EngineIdle

NextFetch ==
    \/ ConstructBar
    \/ StartFetch
    \/ FetchPage
    \/ ExchangeRaises
    \/ ReturnData

SpecFetch == InitFetch /\ [][NextFetch]_vars

\* a fetcher holding a client of sound candles, honest or stale
InitLoop ==
    /\ pc = "idle"
    /\ bar_args = <<>>
    /\ bar_result = NoBar
    /\ bar_error = "none"
    /\ since_timestamp = TsBase
    /\ until_timestamp = TsBase
    /\ current_timestamp = TsBase
    /\ all_bars = <<>>
    /\ nreq = 0
    /\ req_since = TsBase
    /\ page_ts = <<>>
    /\ pages_sorted = TRUE
    /\ rejected = <<>>
    /\ client \in {"honest", "stale"}
    /\ EngineIdle

\* what the interpreter does next once fetch_ohlcv is inside its loop
LoopStep ==
    \/ FetchPage
    \/ ExchangeRaises
    \/ ReturnData

\* fetch_ohlcv is sequential and synchronous: inside the loop the next
\* statement runs and the exchange call returns a page or raises
SpecLoop == InitLoop /\ [][NextFetch]_vars /\ WF_vars(LoopStep)

InitInd ==
    /\ FetchIdle
    /\ in_df \in Inputs
    /\ epc = "new"
    /\ df = NoFrame
    /\ call = NoCall
    /\ result = NoResult

NextInd ==
    \/ Construct
    \/ Sma
    \/ Ema
    \/ Roc
    \/ Momentum
    \/ Rsi
    \/ Obv

SpecInd == InitInd /\ [][NextInd]_vars

InitSig ==
    /\ FetchIdle
    /\ in_df \in SigInputs
    /\ epc = "new"
    /\ df = NoFrame
    /\ call = NoCall
    /\ result = NoResult

NextSig ==
    \/ Construct
    \/ VolumeSma
    \/ VolumeVelocity
    \/ Macd
    \/ Bollinger
    \/ Detect

SpecSig == InitSig /\ [][NextSig]_vars

InitObv ==
    /\ FetchIdle
    /\ in_df \in ObvInputs
    /\ epc = "new"
    /\ df = NoFrame
    /\ call = NoCall
    /\ result = NoResult

NextObv ==
    \/ Construct
    \/ Obv

SpecObv == InitObv /\ [][NextObv]_vars

\* inputs for the whole engine: frames of up to SigLen rows with a known
\* volume, closes 1, 2 or missing
AllRows == { r \in Rows : ~IsNaN(r.volume) /\ (r.close = R(2) => r.volume = R(0)) }

AllInputs == { FrameOf(r) : r \in SeqsUpTo(AllRows, SigLen) }

InitAll ==
    /\ FetchIdle
    /\ in_df \in AllInputs
    /\ epc = "new"
    /\ df = NoFrame
    /\ call = NoCall
    /\ result = NoResult

\* every method of the engine, in any order
NextAll ==
    \/ Construct
    \/ Sma
    \/ Ema
    \/ Roc
    \/ Momentum
    \/ Rsi
    \/ WilliamsR
    \/ StochasticOscillator
    \/ Macd
    \/ Bollinger
    \/ Atr
    \/ VolumeSma
    \/ Obv
    \/ PriceVelocity
    \/ VolumeVelocity
    \/ Detect

SpecAll == InitAll /\ [][NextAll]_vars

(***************************************************************************)
(* Claims about OHLCVBar and fetch_ohlcv                                   *)
(***************************************************************************)
\* the six inequalities on the arguments <<ts, open, high, low, close, volume>>
ArgsOK(a) ==
    /\ a[3] >= a[4]
    /\ a[3] >= a[2]
    /\ a[3] >= a[5]
    /\ a[4] <= a[2]
    /\ a[4] <= a[5]
    /\ a[6] >= 0

\* C1: constructing an OHLCVBar succeeds exactly when the six inequalities
\* hold, a failed construction produces no bar, fetch_ohlcv raises only on a
\* candle violating one of them, and every bar it holds satisfies all six.
C1_BarValidation ==
    /\ pc = "bar" =>
          /\ (bar_error = "ok") <=> ArgsOK(bar_args)
          /\ bar_error # "ok" => bar_result = NoBar
          /\ bar_error = "ok" => (bar_result # NoBar /\ BarOK(bar_result))
    /\ rejected # <<>> => (pc = "raised" /\ ~ArgsOK(rejected))
    /\ \A i \in 1 .. Len(all_bars) : BarOK(all_bars[i])

\* a fetch that accepted a bar and then raised on an invalid candle
C1_Witness ==
    /\ pc = "raised"
    /\ rejected # <<>>
    /\ Len(all_bars) > 0

\* C2: the first page is requested with since = the start timestamp; a later
\* page is requested only after a full, non-empty page and with since = the
\* last timestamp of that page + 1, which is below the end timestamp.
C2_Pagination ==
    [][ nreq' = nreq + 1 =>
          /\ nreq = 0 => req_since' = since_timestamp
          /\ nreq > 0 =>
                /\ page_ts # <<>>
                /\ Len(page_ts) = PageLimit
                /\ req_since' = page_ts[Len(page_ts)] + 1
                /\ req_since' < until_timestamp ]_vars

\* a second page was requested
C2_Witness == nreq >= 2 /\ pc = "done"

StrictlyIncreasing(bars) ==
    \A i \in 1 .. Len(bars) : \A j \in 1 .. Len(bars) :
        i < j => DtLess(bars[i].timestamp, bars[j].timestamp)

\* C3: when every page was non-decreasing by timestamp, the returned bars
\* are in strictly increasing timestamp order, without duplicates.
C3_StrictlyIncreasing ==
    (pc = "done" /\ pages_sorted) => StrictlyIncreasing(all_bars)

\* C4: no bar collected by fetch_ohlcv has a timestamp at or beyond the
\* requested end timestamp.
C4_BeforeUntil ==
    \A i \in 1 .. Len(all_bars) :
        DtLess(all_bars[i].timestamp, FromTimestamp(until_timestamp))

\* a returned series from whose last page a candle at or beyond the end was
\* left out
C4_Witness ==
    /\ pc = "done"
    /\ Len(all_bars) > 0
    /\ \E i \in 1 .. Len(page_ts) : page_ts[i] >= until_timestamp

(***************************************************************************)
(* Claims about TechnicalIndicators                                        *)
(***************************************************************************)
AllNaN(x) == \A t \in 1 .. Len(x) : IsNaN(x[t])
NoNaN(x) == \A t \in 1 .. Len(x) : ~IsNaN(x[t])

\* C5 as stated: an indicator returns a value only for a non-empty series
\* whose underlying column is not entirely missing.
C5_EmptyOrAllNaNFails ==
    result.status = "ok" =>
        /\ NRows(in_df) > 0
        /\ ~AllNaN(in_df[call.column])

\* C5, amended: on an empty series the constructor raises, so no indicator
\* method returns a value; a column that is entirely missing is accepted and
\* every entry of an indicator computed on it is undefined.
C5_EmptyFails ==
    /\ NRows(in_df) = 0 => (epc # "ready" /\ result = NoResult)
    /\ (result.status = "ok" /\ AllNaN(in_df[call.column])) =>
          AllNaN(result.out[1])

\* the constructor has raised on an empty frame
C5_Witness == NRows(in_df) = 0 /\ epc = "failed"

\* C6: sma, ema, roc and momentum return no result sequence for a period
\* that is zero or negative.
C6_NonPositivePeriodFails ==
    (call.name \in {"sma", "ema", "roc", "momentum"} /\ call.period <= 0) =>
        result.status # "ok"

\* C8: obv has the length of the series, OBV[0] = volume[0], and every later
\* entry adds the volume on a higher close, subtracts it on a lower close and
\* repeats the previous entry otherwise.
C8_ObvRecurrence ==
    call.name = "obv" =>
        /\ result.status = "ok"
        /\ Len(result.out[1]) = NRows(df)
        /\ result.out[1][1] = df.volume[1]
        /\ \A t \in 2 .. NRows(df) :
              result.out[1][t] =
                  IF FGt(df.close[t], df.close[t - 1])
                  THEN FAdd(result.out[1][t - 1], df.volume[t])
                  ELSE IF FLt(df.close[t], df.close[t - 1])
                  THEN FSub(result.out[1][t - 1], df.volume[t])
                  ELSE result.out[1][t - 1]

\* obv has run over a series with a rising and a falling close
C8_Witness ==
    /\ call.name = "obv"
    /\ result.status = "ok"
    /\ \E t \in 2 .. NRows(df) : FGt(df.close[t], df.close[t - 1])
    /\ \E t \in 2 .. NRows(df) : FLt(df.close[t], df.close[t - 1])

\* C9: on a series without missing closes, rsi(period >= 1) returns at every
\* position with a full window of deltas a value in [0, 100], and 100 when
\* no close of the window fell.
C9_RsiBounded ==
    (call.name = "rsi" /\ call.period >= 1 /\ NoNaN(df.close)) =>
        /\ result.status = "ok"
        /\ \A t \in (call.period + 1) .. NRows(df) :
              LET v == result.out[1][t]
              IN  /\ IsFinite(v)
                  /\ ~FLt(v, R(0))
                  /\ ~FGt(v, R(100))
                  /\ (\A i \in (t - call.period + 1) .. t :
                         ~FLt(df.close[i], df.close[i - 1])) => v = R(100)

\* the column a call reads
CallColumn == df[call.column]

WindowMean(x, p, t) == FDiv(SumRange(x, t - p + 1, t), R(p))

\* C10 as stated, for a column without missing values: length n; sma
\* undefined at exactly the first p-1 positions and the window mean after;
\* roc and momentum undefined at exactly the first p positions; ema defined
\* everywhere with EMA[0] = value[0].
C10_WarmUpExact ==
    (/\ call.name \in {"sma", "ema", "roc", "momentum"}
     /\ call.period >= 1
     /\ call.column \in DOMAIN df
     /\ NoNaN(df[call.column])) =>
        /\ result.status = "ok"
        /\ Len(result.out[1]) = NRows(df)
        /\ \A t \in 1 .. NRows(df) :
              LET v == result.out[1][t]
              IN  /\ call.name = "sma" =>
                        /\ IsNaN(v) <=> t <= call.period - 1
                        /\ t >= call.period => v = WindowMean(CallColumn, call.period, t)
                  /\ call.name \in {"roc", "momentum"} =>
                        (IsNaN(v) <=> t <= call.period)
                  /\ call.name = "ema" =>
                        /\ ~IsNaN(v)
                        /\ t = 1 => v = CallColumn[1]

\* C10, amended: as C10, except that roc is undefined at the first p
\* positions and, beyond them, exactly where value[t] and value[t-p] are both
\* zero.
C10_WarmUp ==
    (/\ call.name \in {"sma", "ema", "roc", "momentum"}
     /\ call.period >= 1
     /\ call.column \in DOMAIN df
     /\ NoNaN(df[call.column])) =>
        /\ result.status = "ok"
        /\ Len(result.out[1]) = NRows(df)
        /\ \A t \in 1 .. NRows(df) :
              LET v == result.out[1][t]
              IN  /\ call.name = "sma" =>
                        /\ IsNaN(v) <=> t <= call.period - 1
                        /\ t >= call.period => v = WindowMean(CallColumn, call.period, t)
                  /\ call.name = "momentum" =>
                        (IsNaN(v) <=> t <= call.period)
                  /\ call.name = "roc" =>
                        (IsNaN(v) <=>
                            \/ t <= call.period
                            \/ (CallColumn[t] = R(0) /\ CallColumn[t - call.period] = R(0)))
                  /\ call.name = "ema" =>
                        /\ ~IsNaN(v)
                        /\ t = 1 => v = CallColumn[1]

\* roc past its warm-up on a column without missing values
C10_Witness ==
    /\ call.name = "roc"
    /\ call.period >= 1
    /\ result.status = "ok"
    /\ NoNaN(df[call.column])
    /\ \E t \in (call.period + 1) .. NRows(df) : ~IsNaN(result.out[1][t])
    /\ \E t \in (call.period + 1) .. NRows(df) : IsNaN(result.out[1][t])

(***************************************************************************)
(* Claims about detect_velocity_signals                                    *)
(***************************************************************************)
\* the indicator series behind flag column k: the flag is a comparison of
\* these series
FlagInputs(k) ==
    LET macd == MacdOf(df, MacdFast, MacdSlow, MacdSignal).out
        bb == BollingerOf(df, BollingerPeriod, R(BollingerStdDev)).out
    IN  IF k \in {1, 2} THEN <<RocOf(df, RocPeriod, "close").out[1]>>
        ELSE IF k \in {3, 4} THEN <<RsiOf(df, RsiPeriod).out[1]>>
        ELSE IF k = 5 THEN <<VolumeVelocityOf(df, VolumePeriod).out[1]>>
        ELSE IF k \in {6, 7} THEN macd
        ELSE <<df.close, bb[1], bb[2]>>

FlagUndefined(k, t) ==
    \E i \in 1 .. Len(FlagInputs(k)) : IsNaN(FlagInputs(k)[i][t])

\* the comparison flag column k stands for, on defined inputs
FlagHolds(k, t) ==
    LET in == FlagInputs(k)
    IN  IF k = 1 THEN FGt(in[1][t], R(RocThreshold))
        ELSE IF k = 2 THEN FLt(in[1][t], FNeg(R(RocThreshold)))
        ELSE IF k = 3 THEN FGt(in[1][t], R(Overbought))
        ELSE IF k = 4 THEN FLt(in[1][t], R(Oversold))
        ELSE IF k = 5 THEN FGt(in[1][t], VolumeMultiplier)
        ELSE IF k = 6 THEN FGt(in[1][t], in[2][t]) /\ FGt(in[3][t], R(0))
        ELSE IF k = 7 THEN FLt(in[1][t], in[2][t]) /\ FLt(in[3][t], R(0))
        ELSE IF k = 8 THEN AboveBand(in[1], in[2], in[3])[t]
        ELSE BelowBand(in[1], in[2], in[3])[t]

Earlier(x, t) == { u \in 1 .. (t - 1) : ~IsNaN(x[u]) }

\* the most recent of them
MostRecent(x, t) == CHOOSE u \in Earlier(x, t) : \A w \in Earlier(x, t) : w <= u

\* C11: after construction every missing value with an earlier value in its
\* column holds the most recent such value, every other entry is the input's,
\* no gap follows the first value of a column, and a frame with all columns
\* and at least one row is never rejected, whatever values it misses
C11_ForwardFill ==
    /\ epc = "ready" =>
          \A c \in RequiredCols :
             /\ Len(df[c]) = Len(in_df[c])
             /\ \A t \in 1 .. Len(in_df[c]) :
                   /\ df[c][t] =
                         IF ~IsNaN(in_df[c][t]) \/ Earlier(in_df[c], t) = {}
                         THEN in_df[c][t]
                         ELSE in_df[c][MostRecent(in_df[c], t)]
                   /\ (IsNaN(df[c][t]) /\ t > 1) => IsNaN(df[c][t - 1])
    /\ (epc # "new" /\ RequiredCols \subseteq DOMAIN in_df /\ NRows(in_df) > 0)
          => epc = "ready"

\* a column misses its first value and two consecutive later ones
C11_Witness ==
    /\ epc = "ready"
    /\ \E t \in 2 .. (NRows(in_df) - 1) :
          /\ IsNaN(in_df.close[t]) /\ IsNaN(in_df.close[t + 1])
          /\ ~IsNaN(in_df.close[t - 1])
    /\ IsNaN(in_df.volume[1])

\* close[t] > close[t-1] for every t >= 1
Rising(x) == \A t \in 2 .. Len(x) : FGt(x[t], x[t - 1])

\* C12 as stated: on strictly increasing closes obv is strictly increasing
C12_StrictlyIncreasing ==
    (call.name = "obv" /\ result.status = "ok" /\ Rising(df.close)) =>
        \A t \in 2 .. NRows(df) : FGt(result.out[1][t], result.out[1][t - 1])

\* C12: on strictly increasing closes obv never decreases, and it increases
\* at t exactly when volume[t] is positive
C12_NonDecreasing ==
    (call.name = "obv" /\ result.status = "ok" /\ Rising(df.close)) =>
        \A t \in 2 .. NRows(df) :
           /\ ~FLt(result.out[1][t], result.out[1][t - 1])
           /\ FGt(result.out[1][t], result.out[1][t - 1])
                 <=> FGt(df.volume[t], R(0))

\* obv of a rising series of full length with a zero and a positive volume
C12_Witness ==
    /\ call.name = "obv" /\ result.status = "ok"
    /\ NRows(df) = MaxLen
    /\ Rising(df.close)
    /\ \E t \in 2 .. NRows(df) : df.volume[t] = R(0)
    /\ \E t \in 2 .. NRows(df) : FGt(df.volume[t], R(0))

\* what a method returns for the arguments of call c on the stored frame d
ResultOf(d, c) ==
    CASE c.name = "sma" -> SmaOf(d, c.period, c.column)
      [] c.name = "ema" -> EmaOf(d, c.period, c.column)
      [] c.name = "roc" -> RocOf(d, c.period, c.column)
      [] c.name = "momentum" -> MomentumOf(d, c.period, c.column)
      [] c.name = "rsi" -> RsiOf(d, c.period)
      [] c.name = "williams_r" -> WilliamsROf(d, c.period)
      [] c.name = "stochastic_oscillator" -> StochasticOf(d, c.period, c.d_period)
      [] c.name = "macd" -> MacdOf(d, MacdFast, MacdSlow, MacdSignal)
      [] c.name = "bollinger_bands" -> BollingerOf(d, c.period, R(BollingerStdDev))
      [] c.name = "atr" -> AtrOf(d, c.period)
      [] c.name = "volume_sma" -> VolumeSmaOf(d, c.period)
      [] c.name = "obv" -> ObvOf(d)
      [] c.name = "price_velocity" -> PriceVelocityOf(d, c.period)
      [] c.name = "volume_velocity" -> VolumeVelocityOf(d, c.period)
      [] c.name = "detect_velocity_signals" ->
             DetectOf(d, R(RocThreshold), VolumeMultiplier)
      [] OTHER -> NoResult

\* the forward fill of the caller's frame
FilledInput == [c \in DOMAIN in_df |-> FFill(in_df[c])]

\* one step of the engine leaves the caller's frame alone, leaves the stored
\* series of a constructed engine alone, and a method returns what it
\* returns on the filled constructor input for the call's arguments
InputUntouched ==
    /\ in_df' = in_df
    /\ epc = "ready" => (epc' = "ready" /\ df' = df)
    /\ epc' = "ready" =>
          /\ df' = FilledInput
          /\ result' = ResultOf(FilledInput, call')

\* C13: neither construction (forward fill included) nor any method call, in
\* any order or number, changes the caller's frame or the stored series, and
\* each result is determined by the constructor input and the arguments
C13_NoMutation == [][InputUntouched]_vars

\* a frame with a gap was filled and the composite method has returned
C13_Witness ==
    /\ epc = "ready"
    /\ HasNaN(in_df) /\ df # in_df
    /\ call.name = "detect_velocity_signals"
    /\ result.status = "ok"

(***************************************************************************)
(* Claims about the termination of the pagination loop                     *)
(***************************************************************************)
\* an iteration that leaves the loop running, made with an honest client
HonestProgress ==
    (client = "honest" /\ pc = "loop" /\ pc' = "loop") =>
        /\ current_timestamp' > current_timestamp
        /\ nreq' <= current_timestamp' - since_timestamp

\* an iteration that appends bars, does not advance the cursor and leaves
\* the loop running
StaleIteration ==
    /\ FetchPage
    /\ Len(page_ts') = PageLimit
    /\ page_ts'[PageLimit] < req_since'
    /\ Len(all_bars') > Len(all_bars)
    /\ current_timestamp' <= current_timestamp
    /\ current_timestamp' > TsBase
    /\ pc' = "loop"

\* a stale client can answer any request from a cursor above the earliest
\* candle with such a page, so the loop can repeat without end
StaleCanRepeat ==
    (client = "stale" /\ pc = "loop" /\ nreq < MaxRequests
        /\ current_timestamp > TsBase /\ current_timestamp < until_timestamp)
    => ENABLED StaleIteration

Terminated == pc \in {"done", "raised"}

\* C14: with a client whose non-empty pages end at or after the requested
\* since, every iteration that stays in the loop raises the cursor, at most
\* cursor - since requests were made, and the loop terminates; with a client
\* that may return a full page ending below the requested since, an
\* iteration that appends bars and does not advance is always possible
C14_Termination ==
    /\ [][HonestProgress]_vars
    /\ (client = "honest" /\ pc = "loop") ~> Terminated
    /\ []StaleCanRepeat

\* an honest client's loop ran a second full iteration and then returned
C14_Witness ==
    /\ client = "honest"
    /\ pc = "done"
    /\ nreq >= 2
    /\ Len(all_bars) >= PageLimit
    /\ current_timestamp >= until_timestamp

====
